---------------------------- MODULE Spec2Model ----------------------------
(***************************************************************************)
(* A model of minbert-assignment: the BERT encoder forward pass of         *)
(* src/bert.py and the fine-tuning / evaluation driver of                  *)
(* src/classifier.py.                                                      *)
(*                                                                         *)
(* Numbers.  A tensor is a nested tuple of integers (fixed point, unit 1); *)
(* a quotient is rounded toward minus infinity.  The torch primitives the  *)
(* repository calls (nn.Linear, nn.LayerNorm, F.gelu, F.softmax, nn.Tanh,  *)
(* nn.Dropout) are modelled by fixed-point operators that keep what the    *)
(* repository's code relies on: Linear is the affine map, LayerNorm        *)
(* centres and divides by the standard deviation, softmax subtracts the    *)
(* row maximum, exponentiates (base 2, underflowing to 0) and keeps the    *)
(* numerators over their sum, gelu and tanh are monotone non-linear maps.  *)
(*                                                                         *)
(* Memory.  The tensors of a forward pass live in cells of `mem'; a python *)
(* variable holds a cell key.  An out-of-place operation writes a cell     *)
(* that was empty, an in-place one (masked_fill_) writes a cell that holds *)
(* a tensor.                                                               *)
(***************************************************************************)
EXTENDS Integers, Sequences, FiniteSets, TLC

VARIABLES
    pc,                 \* position of the running procedure
    config,             \* the model configuration (read-only record)
    attention_head_size,\* BertSelfAttention.attention_head_size
    all_head_size,      \* BertSelfAttention.all_head_size
    params,             \* every parameter of the BertModel
    training,           \* nn.Module.training (dropout active)
    rng_seed,           \* state of the random generator dropout draws from
    drop_calls,         \* number of dropout draws made so far
    input_ids,          \* token ids [batch][seq_len]
    attention_mask,     \* the caller's binary mask [mask_batch][mask_len]
    mem,                \* tensor store: cell key -> tensor (None when empty)
    hidden_states,      \* encode()'s local variable: key of the current cell
    layer_i,            \* encode()'s loop index, 0-based
    call,               \* number of BertLayer.forward calls started
    layer_calls,        \* history: one record per BertLayer.forward call
    ext_calls,          \* history: calls of get_extended_attention_mask
    result,             \* what forward returned, or the error it raised
    args_epochs,        \* classifier.py: args.epochs
    epoch,              \* classifier.py: the finetune loop's epoch
    model_state,        \* classifier.py: parameters of `model' (a version)
    best_dev_acc,       \* classifier.py: best_dev_acc
    checkpoint,         \* classifier.py: content of the file `filepath'
    dev_accs,           \* history: dev accuracy of every finished epoch
    loaded,             \* classifier.py: the model torch.load returned
    model_argmax,       \* model_eval: the label `model' predicts per sentence
    dataloader,         \* model_eval: the batches the dataloader yields
    step,               \* model_eval: batches consumed
    y_true,             \* model_eval: y_true
    y_pred,             \* model_eval: y_pred
    sents,              \* model_eval: sents
    preds,              \* model_eval: preds (of the last batch)
    save_file,          \* model_eval: whether save_file is given
    out_file,           \* model_eval: lines written to save_file
    eval_result         \* model_eval: the returned (acc, f1)

fwdVars == <<config, attention_head_size, all_head_size, params, training,
             rng_seed, drop_calls, input_ids, attention_mask, mem,
             hidden_states, layer_i, call, layer_calls, ext_calls, result>>
trainVars == <<args_epochs, epoch, model_state, best_dev_acc, checkpoint, dev_accs, loaded>>
evalVars == <<model_argmax, dataloader, step, y_true, y_pred, sents, preds, save_file,
              out_file, eval_result>>
vars == <<pc, fwdVars, trainVars, evalVars>>

-----------------------------------------------------------------------------
(* Bounds of the model.                                                     *)

MaxSeqLen == 2
MaxBatch == 2
MaxLayers == 2
MaxEpochs == 3
DevSize == 2
MaxBatches == 2
ExpRange == 6

(* Program constants.                                                       *)

Sentinel == -10000

None == <<>>

-----------------------------------------------------------------------------
(* Arithmetic helpers.                                                      *)

RECURSIVE SumSeq(_)
SumSeq(s) == IF s = <<>> THEN 0 ELSE Head(s) + SumSeq(Tail(s))

RECURSIVE MaxSeq(_)
MaxSeq(s) ==
    IF Len(s) = 1 THEN s[1]
    ELSE LET m == MaxSeq(Tail(s)) IN IF s[1] >= m THEN s[1] ELSE m

Dot(u, v) == SumSeq([k \in 1..Len(u) |-> u[k] * v[k]])

RECURSIVE SqrtFrom(_, _)
SqrtFrom(n, r) == IF (r + 1) * (r + 1) > n THEN r ELSE SqrtFrom(n, r + 1)

Sqrt(n) == SqrtFrom(n, 0)

RECURSIVE Pow2(_)
Pow2(n) == IF n = 0 THEN 1 ELSE 2 * Pow2(n - 1)

\* exp of a difference d <= 0 to the row maximum: positive and strictly
\* increasing down to -ExpRange, 0 below it (floating-point underflow).
Exp(d) == IF d < -ExpRange THEN 0 ELSE Pow2(ExpRange + d)

-----------------------------------------------------------------------------
(* BertSelfAttention.attention, bert.py 35-43.  key, query, value are       *)
(* [batch][head][position][head_size]; ext is the extended mask             *)
(* [mask_batch][1][1][mask_len].                                            *)

\* torch broadcasting of the mask against the score tensor [bs][h][L][L]
Broadcastable(ext, score) ==
    /\ Len(ext) \in {1, Len(score)}
    /\ Len(ext[1][1][1]) \in {1, Len(score[1][1][1])}

ExtAt(ext, b, j) ==
    ext[IF Len(ext) = 1 THEN 1 ELSE b][1][1]
       [IF Len(ext[1][1][1]) = 1 THEN 1 ELSE j]

\* line 38: matmul(query, key^T) / sqrt(key.size(-1))
ScaledDot(q, k) == Dot(q, k) \div Sqrt(Len(k))

ScaledScores(query, key) ==
    [b \in 1..Len(query) |->
      [h \in 1..Len(query[b]) |->
        [i \in 1..Len(query[b][h]) |->
          [j \in 1..Len(key[b][h]) |->
             ScaledDot(query[b][h][i], key[b][h][j])]]]]

\* a faulty variant: the mask added to the score instead of overwriting it
MaskedFillAdditive(attn_score, ext) ==
    [b \in 1..Len(attn_score) |->
      [h \in 1..Len(attn_score[b]) |->
        [i \in 1..Len(attn_score[b][h]) |->
          [j \in 1..Len(attn_score[b][h][i]) |->
             attn_score[b][h][i][j] + ExtAt(ext, b, j)]]]]

\* a faulty variant: the polarity of the mask inverted
MaskedFillInverted(attn_score, ext) ==
    [b \in 1..Len(attn_score) |->
      [h \in 1..Len(attn_score[b]) |->
        [i \in 1..Len(attn_score[b][h]) |->
          [j \in 1..Len(attn_score[b][h][i]) |->
             IF ExtAt(ext, b, j) = Sentinel
             THEN attn_score[b][h][i][j]
             ELSE Sentinel]]]]

\* line 39: attn_score.masked_fill_(attention_mask == -10000.0, -10000.0)
MaskedFill(attn_score, ext) ==
    [b \in 1..Len(attn_score) |->
      [h \in 1..Len(attn_score[b]) |->
        [i \in 1..Len(attn_score[b][h]) |->
          [j \in 1..Len(attn_score[b][h][i]) |->
             IF ExtAt(ext, b, j) = Sentinel
             THEN Sentinel
             ELSE attn_score[b][h][i][j]]]]]

\* line 40, one row of F.softmax(attn_score, dim=-1): the numerators and
\* their sum; the weight of key j is num[j] / den.
SoftmaxRow(row) ==
    LET m == MaxSeq(row)
        nums == [j \in 1..Len(row) |-> Exp(row[j] - m)]
    IN  [num |-> nums, den |-> SumSeq(nums)]

Softmax(attn_score) ==
    [b \in 1..Len(attn_score) |->
      [h \in 1..Len(attn_score[b]) |->
        [i \in 1..Len(attn_score[b][h]) |-> SoftmaxRow(attn_score[b][h][i])]]]

\* a faulty variant: the weights not divided by their sum
ContextRowUnnormalised(w, value) ==
    [d \in 1..Len(value[1]) |->
       SumSeq([j \in 1..Len(value) |-> w.num[j] * value[j][d]])]

\* line 42: matmul(softmax_score, value)
ContextRow(w, value) ==
    [d \in 1..Len(value[1]) |->
       SumSeq([j \in 1..Len(value) |-> w.num[j] * value[j][d]]) \div w.den]

Context(softmax_score, value) ==
    [b \in 1..Len(softmax_score) |->
      [h \in 1..Len(softmax_score[b]) |->
        [i \in 1..Len(softmax_score[b][h]) |->
           ContextRow(softmax_score[b][h][i], value[b][h])]]]

-----------------------------------------------------------------------------
(* The torch primitives, on one vector.                                     *)

\* nn.Linear: weight is [out_features][in_features]
Linear(p, x) == [o \in 1..Len(p.weight) |-> Dot(p.weight[o], x) + p.bias[o]]

\* F.linear raises a RuntimeError unless the last dimension is in_features
LinearFits(p, x) == Len(x) = Len(p.weight[1])

\* nn.LayerNorm over the last dimension: with c = H*(x - mean), the
\* normalised entry (x - mean)/sqrt(var + eps) is c / sqrt(sum(c^2)/H + eps)
LayerNorm(p, x) ==
    LET H == Len(x)
        t == SumSeq(x)
        c == [k \in 1..H |-> H * x[k] - t]
        s == Sqrt(SumSeq([k \in 1..H |-> c[k] * c[k]]) \div H + 1)
    IN  [k \in 1..H |-> p.weight[k] * (c[k] \div s) + p.bias[k]]

\* F.gelu, x * Phi(x), rounded to the unit
Gelu(x) == [k \in 1..Len(x) |-> IF x[k] > 0 THEN x[k] ELSE 0]

\* nn.Tanh, rounded to the unit
Tanh(x) == [k \in 1..Len(x) |-> IF x[k] > 0 THEN 1 ELSE IF x[k] < 0 THEN -1 ELSE 0]

VecAdd(x, y) == [k \in 1..Len(x) |-> x[k] + y[k]]

\* the keep bit the generator draws for entry k of position <<b, i>> in
\* its n-th dropout call
Keep(seed, n, b, i, k) == (seed + n + b + i + k) % 2 = 0

\* nn.Dropout(p) on the vector at <<b, i>>: the identity in evaluation mode;
\* in training mode a kept entry is scaled by 1/(1-p), a dropped one is 0
Dropout(x, prob, train, seed, n, b, i) ==
    IF ~train THEN x
    ELSE [k \in 1..Len(x) |->
            IF Keep(seed, n, b, i, k)
            THEN (x[k] * prob[2]) \div (prob[2] - prob[1])
            ELSE 0]

-----------------------------------------------------------------------------
(* Parameters: init_weights() / from_pretrained().  Any values are valid;  *)
(* the model draws them from `seed' so that every layer and every site     *)
(* holds different values.                                                  *)

Entry(seed, site, o, i) == ((seed + site + 2 * o + i) % 3) - 1

LinearInit(seed, site, out, in) ==
    [weight |-> [o \in 1..out |-> [i \in 1..in |-> Entry(seed, site, o, i)]],
     bias   |-> [o \in 1..out |-> (seed + site + o) % 2]]

LayerNormInit(seed, site, n) ==
    [weight |-> [k \in 1..n |-> 1 + ((seed + site + k) % 2)],
     bias   |-> [k \in 1..n |-> ((seed + site + k) % 3) - 1]]

EmbeddingInit(seed, site, rows, n) ==
    [r \in 1..rows |-> [k \in 1..n |-> ((seed + site + r * k + r) % 5) - 2]]

\* BertSelfAttention.__init__, lines 15-17
HeadSize(cfg) == cfg.hidden_size \div cfg.num_attention_heads

AllHeadSize(cfg) == cfg.num_attention_heads * HeadSize(cfg)

\* BertLayer.__init__ (with BertSelfAttention.__init__ lines 20-22)
BertLayerInit(seed, l, cfg) ==
    LET s == 10 * l
        H == cfg.hidden_size
    IN  [query                |-> LinearInit(seed, s + 1, AllHeadSize(cfg), H),
         key                  |-> LinearInit(seed, s + 2, AllHeadSize(cfg), H),
         value                |-> LinearInit(seed, s + 3, AllHeadSize(cfg), H),
         attention_dense      |-> LinearInit(seed, s + 4, H, H),
         attention_layer_norm |-> LayerNormInit(seed, s + 5, H),
         interm_dense         |-> LinearInit(seed, s + 6, cfg.intermediate_size, H),
         out_dense            |-> LinearInit(seed, s + 7, H, cfg.intermediate_size),
         out_layer_norm       |-> LayerNormInit(seed, s + 8, H)]

\* BertModel.__init__
BertModelInit(seed, cfg) ==
    [word_embedding    |-> EmbeddingInit(seed, 1, cfg.vocab_size, cfg.hidden_size),
     pos_embedding     |-> EmbeddingInit(seed, 2, cfg.max_position_embeddings, cfg.hidden_size),
     tk_type_embedding |-> EmbeddingInit(seed, 3, cfg.type_vocab_size, cfg.hidden_size),
     embed_layer_norm  |-> LayerNormInit(seed, 4, cfg.hidden_size),
     bert_layers       |-> [l \in 1..cfg.num_hidden_layers |-> BertLayerInit(seed, l, cfg)],
     pooler_dense      |-> LinearInit(seed, 5, cfg.hidden_size, cfg.hidden_size)]

-----------------------------------------------------------------------------
(* Tensor-level steps of the forward pass.  x is [batch][position][size].   *)

\* BertModel.embed, lines 119-142 (token ids are 0-based row numbers)
Embed(p, cfg, ids, train, seed, n) ==
    [b \in 1..Len(ids) |->
      [i \in 1..Len(ids[b]) |->
         Dropout(LayerNorm(p.embed_layer_norm,
                           VecAdd(VecAdd(p.word_embedding[ids[b][i] + 1],
                                         p.tk_type_embedding[1]),
                                  p.pos_embedding[i])),
                 cfg.hidden_dropout_prob, train, seed, n, b, i)]]

\* utils.get_extended_attention_mask: [batch][len] of {0,1} to
\* [batch][1][1][len] of {0, -10000}
get_extended_attention_mask(mask) ==
    [b \in 1..Len(mask) |->
       << << [j \in 1..Len(mask[b]) |-> IF mask[b][j] = 1 THEN 0 ELSE Sentinel] >> >>]

\* BertSelfAttention.transform, lines 25-33: project, view as
\* [bs][seq_len][heads][head_size], transpose to [bs][heads][seq_len][head_size]
transform(x, linear_layer, heads, head_size) ==
    [b \in 1..Len(x) |->
      [h \in 1..heads |->
        [i \in 1..Len(x[b]) |->
          [d \in 1..head_size |->
             Linear(linear_layer, x[b][i])[(h - 1) * head_size + d]]]]]

\* BertLayer.forward line 84: transpose(1,2).reshape(bs, seq_len, -1)
ConcatHeads(attn) ==
    [b \in 1..Len(attn) |->
      [i \in 1..Len(attn[b][1]) |->
        [f \in 1..(Len(attn[b]) * Len(attn[b][1][1])) |->
           attn[b][((f - 1) \div Len(attn[b][1][1])) + 1][i]
               [((f - 1) % Len(attn[b][1][1])) + 1]]]]

\* the sum inside add_norm, line 76: input + dropout(dense_layer(output))
ResidualSum(input, output, dense_layer, prob, train, seed, n) ==
    [b \in 1..Len(input) |->
      [i \in 1..Len(input[b]) |->
         VecAdd(input[b][i],
                Dropout(Linear(dense_layer, output[b][i]), prob, train, seed, n, b, i))]]

NormEach(ln_layer, x) ==
    [b \in 1..Len(x) |-> [i \in 1..Len(x[b]) |-> LayerNorm(ln_layer, x[b][i])]]

\* BertLayer.add_norm, lines 69-76
add_norm(input, output, dense_layer, prob, train, seed, n, ln_layer) ==
    NormEach(ln_layer, ResidualSum(input, output, dense_layer, prob, train, seed, n))

\* line 88: interm_af(interm_dense(norm_output))
FeedForward(x, interm_dense) ==
    [b \in 1..Len(x) |-> [i \in 1..Len(x[b]) |-> Gelu(Linear(interm_dense, x[b][i]))]]

\* BertModel.forward lines 161-163: the first token, pooler_dense, tanh
Pooler(x, pooler_dense) ==
    [b \in 1..Len(x) |-> Tanh(Linear(pooler_dense, x[b][1]))]

-----------------------------------------------------------------------------
(* The state of a forward pass.                                             *)

CellNames == {"embedding_output", "extended_attention_mask", "key_layer",
              "value_layer", "query_layer", "attn_score", "softmax_score",
              "attn_value", "attn_output", "sum1", "norm_output", "ff_output",
              "sum2", "layer_output"}

\* a cell belongs to the forward call itself (0) or to the c-th layer call
Cells == (0..MaxLayers) \X CellNames

EmptyMem == [c \in Cells |-> None]

Store(m, c, t) == [m EXCEPT ![c] = t]

\* <<hidden_size, num_attention_heads>>; <<3, 2>> is not divisible
HeadConfigs == {<<2, 2>>, <<4, 1>>, <<3, 2>>}

Configs ==
    {[hidden_size |-> hc[1], num_attention_heads |-> hc[2],
      num_hidden_layers |-> n, intermediate_size |-> 2, vocab_size |-> 3,
      max_position_embeddings |-> 2, type_vocab_size |-> 2,
      hidden_dropout_prob |-> <<1, 2>>] : hc \in HeadConfigs, n \in 0..MaxLayers}

\* what the tokenizer yields: [CLS] first, then word pieces
TokenIds(bs, len) ==
    [b \in 1..bs |-> [i \in 1..len |-> IF i = 1 THEN 1 ELSE (b + i) % 3]]

\* a mask row: n real tokens, then padding
MaskRows(len) == {[j \in 1..len |-> IF j <= n THEN 1 ELSE 0] : n \in 0..len}

Masks == UNION {[1..mb -> MaskRows(ml)] : mb \in 1..MaxBatch, ml \in 1..MaxSeqLen}

NoResult == [status |-> "none", last_hidden_state |-> None, pooler_output |-> None]

Raised(e) == [status |-> e, last_hidden_state |-> None, pooler_output |-> None]

\* the file `filepath': absent, left by an earlier run, or saved by this one
NoFile == [exists |-> FALSE, run |-> "none", state |-> 0]

StaleFile == [exists |-> TRUE, run |-> "earlier", state |-> 0]

NotLoaded == [run |-> "none", state |-> 0]

NoEvalResult == [acc |-> <<0, 0>>, f1 |-> <<>>]

NoTrain ==
    /\ args_epochs = 0 /\ epoch = 0 /\ model_state = 0 /\ best_dev_acc = 0
    /\ checkpoint = NoFile /\ dev_accs = <<>> /\ loaded = NotLoaded

NoEval ==
    /\ model_argmax = <<>> /\ dataloader = <<>> /\ step = 0 /\ y_true = <<>> /\ y_pred = <<>>
    /\ sents = <<>> /\ preds = None /\ save_file = FALSE /\ out_file = None
    /\ eval_result = NoEvalResult

Init ==
    /\ pc = "new"
    /\ config \in Configs
    /\ attention_head_size = 0
    /\ all_head_size = 0
    /\ params = None
    /\ training \in BOOLEAN
    /\ rng_seed \in 0..1
    /\ drop_calls = 0
    /\ \E bs \in 1..MaxBatch, len \in 1..MaxSeqLen : input_ids = TokenIds(bs, len)
    /\ attention_mask \in Masks
    /\ mem = EmptyMem
    /\ hidden_states = None
    /\ layer_i = 0
    /\ call = 0
    /\ layer_calls = <<>>
    /\ ext_calls = 0
    /\ result = NoResult
    /\ NoTrain
    /\ NoEval

-----------------------------------------------------------------------------
(* BertModel.__init__, with BertLayer.__init__ and                          *)
(* BertSelfAttention.__init__ for every layer: no check of the              *)
(* configuration is made.                                                   *)

Construct ==
    /\ pc = "new"
    /\ attention_head_size' =
           IF config.num_hidden_layers > 0 THEN HeadSize(config) ELSE 0
    /\ all_head_size' =
           IF config.num_hidden_layers > 0 THEN AllHeadSize(config) ELSE 0
    /\ params' = BertModelInit(rng_seed, config)
    /\ pc' = "constructed"
    /\ UNCHANGED <<config, training, rng_seed, drop_calls, input_ids,
                   attention_mask, mem, hidden_states, layer_i, call,
                   layer_calls, ext_calls, result, trainVars, evalVars>>

\* BertModel.forward line 156: embed(); the position lookup of line 129
\* raises an IndexError past max_position_embeddings
EmbedStep ==
    /\ pc = "constructed"
    /\ IF Len(input_ids[1]) > config.max_position_embeddings
       THEN /\ pc' = "error"
            /\ result' = Raised("IndexError")
            /\ UNCHANGED <<mem, drop_calls>>
       ELSE /\ mem' = Store(mem, <<0, "embedding_output">>,
                            Embed(params, config, input_ids, training,
                                  rng_seed, drop_calls))
            /\ drop_calls' = drop_calls + 1
            /\ pc' = "encode"
            /\ UNCHANGED result
    /\ UNCHANGED <<config, attention_head_size, all_head_size, params,
                   training, rng_seed, input_ids, attention_mask,
                   hidden_states, layer_i, call, layer_calls, ext_calls,
                   trainVars, evalVars>>

\* BertModel.encode line 146, and the start of the loop of line 149
ExtendMask ==
    /\ pc = "encode"
    /\ mem' = Store(mem, <<0, "extended_attention_mask">>,
                    get_extended_attention_mask(attention_mask))
    /\ ext_calls' = ext_calls + 1
    /\ hidden_states' = <<0, "embedding_output">>
    /\ layer_i' = 0
    /\ pc' = "loop"
    /\ UNCHANGED <<config, attention_head_size, all_head_size, params,
                   training, rng_seed, drop_calls, input_ids, attention_mask,
                   call, layer_calls, result, trainVars, evalVars>>

\* a faulty variant: every layer is given the embedding output
LayerInputFirst(hs) == <<0, "embedding_output">>

\* line 150: the tensor handed to layer_module is the loop's hidden_states
LayerInput(hs) == hs

\* line 150: layer_module(hidden_states, extended_attention_mask) is called
LayerCall ==
    /\ pc = "loop"
    /\ layer_i < config.num_hidden_layers
    /\ call' = call + 1
    /\ layer_calls' = Append(layer_calls,
                             [layer |-> layer_i,
                              input |-> LayerInput(hidden_states),
                              mask  |-> <<0, "extended_attention_mask">>,
                              drop  |-> <<>>])
    /\ pc' = "transform"
    /\ UNCHANGED <<config, attention_head_size, all_head_size, params,
                   training, rng_seed, drop_calls, input_ids, attention_mask,
                   mem, hidden_states, layer_i, ext_calls, result, trainVars,
                   evalVars>>

ThisLayer == params.bert_layers[layer_calls[call].layer + 1]

ThisInput == mem[layer_calls[call].input]

ThisMask == mem[layer_calls[call].mask]

\* BertSelfAttention.forward lines 46-48
TransformStep ==
    /\ pc = "transform"
    /\ mem' = [mem EXCEPT
                 ![<<call, "key_layer">>] =
                     transform(ThisInput, ThisLayer.key,
                               config.num_attention_heads, attention_head_size),
                 ![<<call, "value_layer">>] =
                     transform(ThisInput, ThisLayer.value,
                               config.num_attention_heads, attention_head_size),
                 ![<<call, "query_layer">>] =
                     transform(ThisInput, ThisLayer.query,
                               config.num_attention_heads, attention_head_size)]
    /\ pc' = "score"
    /\ UNCHANGED <<config, attention_head_size, all_head_size, params,
                   training, rng_seed, drop_calls, input_ids, attention_mask,
                   hidden_states, layer_i, call, layer_calls, ext_calls,
                   result, trainVars, evalVars>>

\* attention line 38: a new tensor
AttnScore ==
    /\ pc = "score"
    /\ mem' = Store(mem, <<call, "attn_score">>,
                    ScaledScores(mem[<<call, "query_layer">>],
                                 mem[<<call, "key_layer">>]))
    /\ pc' = "fill"
    /\ UNCHANGED <<config, attention_head_size, all_head_size, params,
                   training, rng_seed, drop_calls, input_ids, attention_mask,
                   hidden_states, layer_i, call, layer_calls, ext_calls,
                   result, trainVars, evalVars>>

\* attention line 39: masked_fill_ writes attn_score in place; a mask that
\* does not broadcast to the score's shape raises a RuntimeError
AttnFill ==
    /\ pc = "fill"
    /\ IF Broadcastable(ThisMask, mem[<<call, "attn_score">>])
       THEN /\ mem' = Store(mem, <<call, "attn_score">>,
                            MaskedFill(mem[<<call, "attn_score">>], ThisMask))
            /\ pc' = "softmax"
            /\ UNCHANGED result
       ELSE /\ pc' = "error"
            /\ result' = Raised("RuntimeError")
            /\ UNCHANGED mem
    /\ UNCHANGED <<config, attention_head_size, all_head_size, params,
                   training, rng_seed, drop_calls, input_ids, attention_mask,
                   hidden_states, layer_i, call, layer_calls, ext_calls,
                   trainVars, evalVars>>

\* attention line 40
AttnSoftmax ==
    /\ pc = "softmax"
    /\ mem' = Store(mem, <<call, "softmax_score">>,
                    Softmax(mem[<<call, "attn_score">>]))
    /\ pc' = "context"
    /\ UNCHANGED <<config, attention_head_size, all_head_size, params,
                   training, rng_seed, drop_calls, input_ids, attention_mask,
                   hidden_states, layer_i, call, layer_calls, ext_calls,
                   result, trainVars, evalVars>>

\* attention lines 42-43
AttnContext ==
    /\ pc = "context"
    /\ mem' = Store(mem, <<call, "attn_value">>,
                    Context(mem[<<call, "softmax_score">>],
                            mem[<<call, "value_layer">>]))
    /\ pc' = "concat"
    /\ UNCHANGED <<config, attention_head_size, all_head_size, params,
                   training, rng_seed, drop_calls, input_ids, attention_mask,
                   hidden_states, layer_i, call, layer_calls, ext_calls,
                   result, trainVars, evalVars>>

\* BertLayer.forward line 84
ConcatStep ==
    /\ pc = "concat"
    /\ mem' = Store(mem, <<call, "attn_output">>,
                    ConcatHeads(mem[<<call, "attn_value">>]))
    /\ pc' = "addnorm1"
    /\ UNCHANGED <<config, attention_head_size, all_head_size, params,
                   training, rng_seed, drop_calls, input_ids, attention_mask,
                   hidden_states, layer_i, call, layer_calls, ext_calls,
                   result, trainVars, evalVars>>

\* a faulty variant: the sum written into the input tensor (input += ...)
SumCellInPlace(c, input, name) == input

\* line 76: `input + ...' makes a new tensor
SumCell(c, input, name) == <<c, name>>

\* BertLayer.forward line 86; attention_dense raises a RuntimeError when
\* the concatenated heads are not hidden_size wide
AddNorm1 ==
    /\ pc = "addnorm1"
    /\ IF LinearFits(ThisLayer.attention_dense, mem[<<call, "attn_output">>][1][1])
       THEN /\ mem' = [mem EXCEPT
                         ![SumCell(call, layer_calls[call].input, "sum1")] =
                             ResidualSum(ThisInput, mem[<<call, "attn_output">>],
                                         ThisLayer.attention_dense,
                                         config.hidden_dropout_prob, training,
                                         rng_seed, drop_calls),
                         ![<<call, "norm_output">>] =
                             add_norm(ThisInput, mem[<<call, "attn_output">>],
                                      ThisLayer.attention_dense,
                                      config.hidden_dropout_prob, training,
                                      rng_seed, drop_calls,
                                      ThisLayer.attention_layer_norm)]
            /\ layer_calls' = [layer_calls EXCEPT
                                 ![call].drop = Append(@, drop_calls)]
            /\ drop_calls' = drop_calls + 1
            /\ pc' = "ff"
            /\ UNCHANGED result
       ELSE /\ pc' = "error"
            /\ result' = Raised("RuntimeError")
            /\ UNCHANGED <<mem, layer_calls, drop_calls>>
    /\ UNCHANGED <<config, attention_head_size, all_head_size, params,
                   training, rng_seed, input_ids, attention_mask,
                   hidden_states, layer_i, call, ext_calls, trainVars,
                   evalVars>>

\* BertLayer.forward line 88
FeedForwardStep ==
    /\ pc = "ff"
    /\ mem' = Store(mem, <<call, "ff_output">>,
                    FeedForward(mem[<<call, "norm_output">>],
                                ThisLayer.interm_dense))
    /\ pc' = "addnorm2"
    /\ UNCHANGED <<config, attention_head_size, all_head_size, params,
                   training, rng_seed, drop_calls, input_ids, attention_mask,
                   hidden_states, layer_i, call, layer_calls, ext_calls,
                   result, trainVars, evalVars>>

\* a faulty variant: the second add-norm takes the layer's own input as residual
SecondInputIsLayerInput(c, input) == input

\* line 90: the first argument of the second add_norm is norm_output
SecondInput(c, input) == <<c, "norm_output">>

\* BertLayer.forward lines 90-92, and the assignment of encode line 150
AddNorm2 ==
    /\ pc = "addnorm2"
    /\ LET in2 == SecondInput(call, layer_calls[call].input)
       IN  mem' = [mem EXCEPT
                     ![SumCell(call, in2, "sum2")] =
                         ResidualSum(mem[in2], mem[<<call, "ff_output">>],
                                     ThisLayer.out_dense,
                                     config.hidden_dropout_prob, training,
                                     rng_seed, drop_calls),
                     ![<<call, "layer_output">>] =
                         add_norm(mem[in2], mem[<<call, "ff_output">>],
                                  ThisLayer.out_dense,
                                  config.hidden_dropout_prob, training,
                                  rng_seed, drop_calls,
                                  ThisLayer.out_layer_norm)]
    /\ layer_calls' = [layer_calls EXCEPT ![call].drop = Append(@, drop_calls)]
    /\ drop_calls' = drop_calls + 1
    /\ hidden_states' = <<call, "layer_output">>
    /\ layer_i' = layer_i + 1
    /\ pc' = "loop"
    /\ UNCHANGED <<config, attention_head_size, all_head_size, params,
                   training, rng_seed, input_ids, attention_mask, call,
                   ext_calls, result, trainVars, evalVars>>

\* encode line 152 and BertModel.forward lines 161-165
Pool ==
    /\ pc = "loop"
    /\ layer_i >= config.num_hidden_layers
    /\ result' = [status |-> "ok",
                  last_hidden_state |-> mem[hidden_states],
                  pooler_output |-> Pooler(mem[hidden_states], params.pooler_dense)]
    /\ pc' = "done"
    /\ UNCHANGED <<config, attention_head_size, all_head_size, params,
                   training, rng_seed, drop_calls, input_ids, attention_mask,
                   mem, hidden_states, layer_i, call, layer_calls, ext_calls,
                   trainVars, evalVars>>

Next ==
    \/ Construct
    \/ EmbedStep
    \/ ExtendMask
    \/ LayerCall
    \/ TransformStep
    \/ AttnScore
    \/ AttnFill
    \/ AttnSoftmax
    \/ AttnContext
    \/ ConcatStep
    \/ AddNorm1
    \/ FeedForwardStep
    \/ AddNorm2
    \/ Pool

Spec == Init /\ [][Next]_vars

-----------------------------------------------------------------------------
(* BertSelfAttention.attention on its own: key, query, value and the        *)
(* extended mask are drawn, then lines 38-42 run.                           *)

QVecs == {<<1, 1, 0, 0>>, <<-1, -1, 0, 0>>}

KVecs == {<<0, 0, 0, 0>>, <<2, 2, 1, -1>>, <<10000, 10000, 0, 0>>,
          <<10002, 10002, 3, 0>>}

VVecs == {<<3, 0, -1, 2>>, <<-2, 4, 1, 0>>}

AttnConfig ==
    [hidden_size |-> 4, num_attention_heads |-> 1, num_hidden_layers |-> 1,
     intermediate_size |-> 2, vocab_size |-> 3, max_position_embeddings |-> 2,
     type_vocab_size |-> 2, hidden_dropout_prob |-> <<1, 2>>]

InitAttn ==
    /\ pc = "score"
    /\ config = AttnConfig
    /\ attention_head_size = HeadSize(AttnConfig)
    /\ all_head_size = AllHeadSize(AttnConfig)
    /\ params = None
    /\ training = FALSE
    /\ rng_seed = 0
    /\ drop_calls = 0
    /\ input_ids = None
    /\ attention_mask = None
    /\ \E len \in 1..MaxSeqLen :
         \E q \in [1..len -> QVecs], k \in [1..len -> KVecs],
            v \in [1..len -> VVecs], m \in [1..len -> {0, Sentinel}] :
           mem = [EmptyMem EXCEPT
                    ![<<1, "query_layer">>] = << <<q>> >>,
                    ![<<1, "key_layer">>] = << <<k>> >>,
                    ![<<1, "value_layer">>] = << <<v>> >>,
                    ![<<0, "extended_attention_mask">>] = << << <<m>> >> >>]
    /\ hidden_states = None
    /\ layer_i = 0
    /\ call = 1
    /\ layer_calls = <<[layer |-> 0, input |-> None,
                        mask |-> <<0, "extended_attention_mask">>,
                        drop |-> <<>>]>>
    /\ ext_calls = 0
    /\ result = NoResult
    /\ NoTrain
    /\ NoEval

NextAttn == AttnScore \/ AttnFill \/ AttnSoftmax \/ AttnContext

SpecAttn == InitAttn /\ [][NextAttn]_vars

-----------------------------------------------------------------------------
(* Claims about the forward pass.                                           *)

Shape(t) == <<Len(t), Len(t[1])>>

RawScore(c, b, h, i, j) ==
    Dot(mem[<<c, "query_layer">>][b][h][i], mem[<<c, "key_layer">>][b][h][j])
        \div Sqrt(Len(mem[<<c, "key_layer">>][b][h][j]))

Padded(c, b, j) == ExtAt(mem[layer_calls[c].mask], b, j) = Sentinel

\* C1: a BertSelfAttention is never constructed from a configuration whose
\* hidden_size is not divisible by num_attention_heads: once construction
\* is over, every attention component has all_head_size = hidden_size.
C1_IndivisibleConfigRejected ==
    (pc # "new" /\ config.num_hidden_layers > 0)
        => all_head_size = config.hidden_size

\* C2: a forward call whose attention mask does not have the shape of the
\* token-id batch never returns a result.
C2_MaskShapeMismatchRaises ==
    result.status = "ok" => Shape(attention_mask) = Shape(input_ids)

\* C3: after the masking of line 39 the score of a key whose extended mask
\* is the sentinel is the sentinel, whatever the dot product, and the score
\* of any other key is the scaled dot product, unchanged.
C3_MaskOverwritesScore ==
    pc = "softmax" =>
        LET score == mem[<<call, "attn_score">>]
        IN  \A b \in 1..Len(score) : \A h \in 1..Len(score[b]) :
              \A i \in 1..Len(score[b][h]) : \A j \in 1..Len(score[b][h][i]) :
                score[b][h][i][j] =
                    IF Padded(call, b, j) THEN Sentinel
                    ELSE RawScore(call, b, h, i, j)

\* C3 happens: two batch elements, two heads, a padded key whose dot
\* product is not 0 and a real key whose score is not 0.
C3_Witness ==
    /\ pc = "softmax"
    /\ Len(mem[<<call, "attn_score">>]) = 2
    /\ Len(mem[<<call, "attn_score">>][1]) = 2
    /\ Len(mem[<<call, "attn_score">>][1][1]) = 2
    /\ \E b \in 1..2, h \in 1..2, i \in 1..2, j \in 1..2 :
         Padded(call, b, j) /\ RawScore(call, b, h, i, j) # 0
    /\ \E b \in 1..2, h \in 1..2, i \in 1..2, j \in 1..2 :
         ~Padded(call, b, j) /\ mem[<<call, "attn_score">>][b][h][i][j] # 0

\* C4 as stated: in a row with a real key, the weight of a padded key is
\* at most the weight of any real key, for every value of the raw scores.
C4_PaddedNeverAboveReal ==
    pc = "context" =>
        LET w == mem[<<call, "softmax_score">>]
        IN  \A b \in 1..Len(w) : \A h \in 1..Len(w[b]) : \A i \in 1..Len(w[b][h]) :
              \A j, k \in 1..Len(w[b][h][i].num) :
                (Padded(call, b, j) /\ ~Padded(call, b, k))
                    => w[b][h][i].num[j] <= w[b][h][i].num[k]

\* C4 amended: the weight of a padded key is at most the weight of every
\* real key of the row whose raw scaled score is at least -10000.
C4_PaddedBelowRealAboveSentinel ==
    pc = "context" =>
        LET w == mem[<<call, "softmax_score">>]
        IN  \A b \in 1..Len(w) : \A h \in 1..Len(w[b]) : \A i \in 1..Len(w[b][h]) :
              \A j, k \in 1..Len(w[b][h][i].num) :
                (/\ Padded(call, b, j)
                 /\ ~Padded(call, b, k)
                 /\ RawScore(call, b, h, i, k) >= Sentinel)
                    => w[b][h][i].num[j] <= w[b][h][i].num[k]

\* C4 happens: a row with a padded key of large dot product and a real key
\* of smaller score, which still gets the larger weight.
C4_Witness ==
    /\ pc = "context"
    /\ \E j, k \in 1..Len(mem[<<call, "softmax_score">>][1][1][1].num) :
         /\ Padded(call, 1, j)
         /\ ~Padded(call, 1, k)
         /\ RawScore(call, 1, 1, 1, k) >= Sentinel
         /\ RawScore(call, 1, 1, 1, j) > RawScore(call, 1, 1, 1, k)
         /\ mem[<<call, "softmax_score">>][1][1][1].num[j]
              < mem[<<call, "softmax_score">>][1][1][1].num[k]

\* C5: encode computes the extended mask once and calls the layers
\* 0, 1, .., N-1 in this order, each once, each on the output of the one
\* before and on the one extended mask; it returns the last output (its
\* input when there is no layer).
C5_LayersInOrder ==
    /\ ext_calls <= 1
    /\ Len(layer_calls) <= config.num_hidden_layers
    /\ \A k \in 1..Len(layer_calls) :
         /\ layer_calls[k].layer = k - 1
         /\ layer_calls[k].input =
                IF k = 1 THEN <<0, "embedding_output">>
                ELSE <<k - 1, "layer_output">>
         /\ layer_calls[k].mask = <<0, "extended_attention_mask">>
    /\ pc = "done" =>
         /\ ext_calls = 1
         /\ Len(layer_calls) = config.num_hidden_layers
         /\ hidden_states =
                IF config.num_hidden_layers = 0 THEN <<0, "embedding_output">>
                ELSE <<config.num_hidden_layers, "layer_output">>
         /\ result.last_hidden_state = mem[hidden_states]

\* C5 happens: a forward pass through two layers has returned.
C5_Witness ==
    /\ pc = "done"
    /\ config.num_hidden_layers = 2
    /\ Len(layer_calls) = 2
    /\ mem[<<2, "layer_output">>] # mem[<<1, "layer_output">>]

\* C6: no step of a forward pass changes a parameter, the caller's mask,
\* or a tensor that exists (the extended mask and every layer's input among
\* them), except that line 39 rewrites the score tensor of its own call.
C6_ForwardPassFrame ==
    [][/\ pc # "new" => params' = params
       /\ attention_mask' = attention_mask
       /\ \A c \in Cells :
            (mem[c] # None /\ ~(pc = "fill" /\ c = <<call, "attn_score">>))
                => mem'[c] = mem[c]]_vars

\* C6 happens: a training-mode pass through two layers, with a padded key,
\* has returned.
C6_Witness ==
    /\ pc = "done"
    /\ training
    /\ config.num_hidden_layers = 2
    /\ \E b \in 1..Len(attention_mask) : \E j \in 1..Len(attention_mask[b]) :
         attention_mask[b][j] = 0
    /\ mem[<<2, "attn_score">>] # None

\* C7: the output of a layer is Normalize2(a + Dropout(OutDense(GELU(
\* IntermDense(a))))), where a = Normalize1(x + Dropout(AttentionDense(c))),
\* x is the layer's input and c the flattened attention context of x.
C7_TwoAddNorms ==
    \A k \in 1..Len(layer_calls) :
      mem[<<k, "layer_output">>] # None =>
        LET x  == mem[layer_calls[k].input]
            p  == params.bert_layers[layer_calls[k].layer + 1]
            c  == ConcatHeads(mem[<<k, "attn_value">>])
            pr == config.hidden_dropout_prob
            a  == [b \in 1..Len(x) |-> [i \in 1..Len(x[b]) |->
                     LayerNorm(p.attention_layer_norm,
                       VecAdd(x[b][i],
                              Dropout(Linear(p.attention_dense, c[b][i]), pr,
                                      training, rng_seed,
                                      layer_calls[k].drop[1], b, i)))]]
            o  == [b \in 1..Len(x) |-> [i \in 1..Len(x[b]) |->
                     LayerNorm(p.out_layer_norm,
                       VecAdd(a[b][i],
                              Dropout(Linear(p.out_dense,
                                        Gelu(Linear(p.interm_dense, a[b][i]))),
                                      pr, training, rng_seed,
                                      layer_calls[k].drop[2], b, i)))]]
        IN  /\ mem[<<k, "attn_value">>] =
                 Context(Softmax(MaskedFill(
                     ScaledScores(
                         transform(x, p.query, config.num_attention_heads,
                                   attention_head_size),
                         transform(x, p.key, config.num_attention_heads,
                                   attention_head_size)),
                     mem[layer_calls[k].mask])),
                   transform(x, p.value, config.num_attention_heads,
                             attention_head_size))
            /\ mem[<<k, "norm_output">>] = a
            /\ mem[<<k, "layer_output">>] = o
            /\ layer_calls[k].drop[1] # layer_calls[k].drop[2]

\* C7 happens: a layer has returned whose first add-norm output differs
\* from its input.
C7_Witness ==
    /\ Len(layer_calls) >= 1
    /\ mem[<<1, "layer_output">>] # None
    /\ mem[<<1, "norm_output">>] # mem[layer_calls[1].input]
    /\ mem[<<1, "ff_output">>] # mem[<<1, "norm_output">>]

\* C8: a batch element whose keys are all padded has, in every row, every
\* score equal to -10000 and weights that are uniform, 1/seq_len each, with
\* a non-zero sum; its context is the average of the value vectors.
C8_AllPaddedIsUniform ==
    pc = "concat" =>
        LET score == mem[<<call, "attn_score">>]
            w     == mem[<<call, "softmax_score">>]
            v     == mem[<<call, "value_layer">>]
            ctx   == mem[<<call, "attn_value">>]
        IN  \A b \in 1..Len(score) :
              (\A j \in 1..Len(score[b][1][1]) : Padded(call, b, j)) =>
                \A h \in 1..Len(score[b]) : \A i \in 1..Len(score[b][h]) :
                  LET n == Len(score[b][h][i])
                  IN  /\ \A j \in 1..n : score[b][h][i][j] = Sentinel
                      /\ w[b][h][i].den > 0
                      /\ SumSeq(w[b][h][i].num) = w[b][h][i].den
                      /\ \A j \in 1..n : n * w[b][h][i].num[j] = w[b][h][i].den
                      /\ \A d \in 1..Len(v[b][h][1]) :
                           ctx[b][h][i][d] =
                               SumSeq([j \in 1..n |-> v[b][h][j][d]]) \div n

\* C8 happens: every key of a row of two is padded, the dot products
\* differ and so do the value vectors.
C8_Witness ==
    /\ pc = "concat"
    /\ Len(mem[<<call, "attn_score">>][1][1][1]) = 2
    /\ Padded(call, 1, 1) /\ Padded(call, 1, 2)
    /\ RawScore(call, 1, 1, 1, 1) # RawScore(call, 1, 1, 1, 2)
    /\ mem[<<call, "value_layer">>][1][1][1] # mem[<<call, "value_layer">>][1][1][2]

-----------------------------------------------------------------------------
(* classifier.py, the finetune branch of __main__, lines 240-290.  The     *)
(* parameters of `model' are identified by the number of training epochs   *)
(* that produced them; a dev accuracy is the number of correct             *)
(* predictions out of DevSize.                                              *)

InitTrain ==
    /\ pc = "ft_train"
    /\ config = AttnConfig
    /\ attention_head_size = 0
    /\ all_head_size = 0
    /\ params = None
    /\ training = FALSE
    /\ rng_seed = 0
    /\ drop_calls = 0
    /\ input_ids = None
    /\ attention_mask = None
    /\ mem = EmptyMem
    /\ hidden_states = None
    /\ layer_i = 0
    /\ call = 0
    /\ layer_calls = <<>>
    /\ ext_calls = 0
    /\ result = NoResult
    /\ args_epochs \in 0..MaxEpochs
    /\ epoch = 0
    /\ model_state = 0
    /\ best_dev_acc = 0
    /\ checkpoint \in {NoFile, StaleFile}
    /\ dev_accs = <<>>
    /\ loaded = NotLoaded
    /\ NoEval

\* lines 245-272: one epoch of optimizer steps
TrainEpoch ==
    /\ pc = "ft_train"
    /\ epoch < args_epochs
    /\ model_state' = model_state + 1
    /\ pc' = "ft_eval"
    /\ UNCHANGED <<fwdVars, args_epochs, epoch, best_dev_acc, checkpoint,
                   dev_accs, loaded, evalVars>>

\* line 277
Improves(dev_acc, best) == dev_acc > best

\* lines 274-288: the epoch's evaluation and, on improvement, torch.save
EvalEpoch ==
    /\ pc = "ft_eval"
    /\ \E dev_acc \in 0..DevSize :
         /\ dev_accs' = Append(dev_accs, dev_acc)
         /\ IF Improves(dev_acc, best_dev_acc)
            THEN /\ best_dev_acc' = dev_acc
                 /\ checkpoint' = [exists |-> TRUE, run |-> "this",
                                   state |-> model_state]
            ELSE UNCHANGED <<best_dev_acc, checkpoint>>
    /\ epoch' = epoch + 1
    /\ pc' = "ft_train"
    /\ UNCHANGED <<fwdVars, args_epochs, model_state, loaded, evalVars>>

\* line 290: torch.load(filepath); a missing file raises FileNotFoundError
LoadBest ==
    /\ pc = "ft_train"
    /\ epoch >= args_epochs
    /\ IF checkpoint.exists
       THEN /\ loaded' = [run |-> checkpoint.run, state |-> checkpoint.state]
            /\ pc' = "ft_loaded"
       ELSE /\ pc' = "ft_error"
            /\ UNCHANGED loaded
    /\ UNCHANGED <<fwdVars, args_epochs, epoch, model_state, best_dev_acc,
                   checkpoint, dev_accs, evalVars>>

NextTrain == TrainEpoch \/ EvalEpoch \/ LoadBest

SpecTrain == InitTrain /\ [][NextTrain]_vars

\* the first epoch (1-based) whose dev accuracy is the maximum of the run;
\* after epoch k the parameters are those of k epochs of training
BestEpoch ==
    CHOOSE k \in 1..Len(dev_accs) :
        /\ \A m \in 1..Len(dev_accs) : dev_accs[m] <= dev_accs[k]
        /\ \A m \in 1..(k - 1) : dev_accs[m] < dev_accs[k]

\* C9: with at least one epoch, the loop ends with a checkpoint written by
\* this run, and the model loaded from it has the parameters of the first
\* epoch that reached the best dev accuracy.
C9_LoadsBestEpoch ==
    (pc \in {"ft_loaded", "ft_error"} /\ args_epochs >= 1) =>
        /\ pc = "ft_loaded"
        /\ loaded.run = "this"
        /\ loaded.state = BestEpoch

-----------------------------------------------------------------------------
(* classifier.py, model_eval, lines 159-193.  A sentence is a number; the  *)
(* dataloader yields batches of records [sent, label].                     *)

Labels == {0, 1}

\* the batches of sizes `sizes' over the sentences 1, 2, ... in order
RECURSIVE Batches(_, _)
Batches(sizes, first) ==
    IF sizes = <<>> THEN <<>>
    ELSE <<[k \in 1..Head(sizes) |->
              [sent |-> first + k - 1, label |-> (first + k - 1) % 2]]>>
         \o Batches(Tail(sizes), first + Head(sizes))

InitEval ==
    /\ pc = "ev_loop"
    /\ config = AttnConfig
    /\ attention_head_size = 0
    /\ all_head_size = 0
    /\ params = None
    /\ training = FALSE
    /\ rng_seed = 0
    /\ drop_calls = 0
    /\ input_ids = None
    /\ attention_mask = None
    /\ mem = EmptyMem
    /\ hidden_states = None
    /\ layer_i = 0
    /\ call = 0
    /\ layer_calls = <<>>
    /\ ext_calls = 0
    /\ result = NoResult
    /\ NoTrain
    /\ \E nb \in 1..MaxBatches : \E sizes \in [1..nb -> 1..MaxBatch] :
         /\ dataloader = Batches(sizes, 1)
         /\ model_argmax \in [1..SumSeq(sizes) -> Labels]
    /\ step = 0
    /\ y_true = <<>>
    /\ y_pred = <<>>
    /\ sents = <<>>
    /\ preds = None
    /\ save_file \in BOOLEAN
    /\ out_file = None
    /\ eval_result = NoEvalResult

\* lines 166-182: one batch
EvalBatch ==
    /\ pc = "ev_loop"
    /\ step < Len(dataloader)
    /\ LET batch == dataloader[step + 1]
           p == [k \in 1..Len(batch) |-> model_argmax[batch[k].sent]]
       IN  /\ preds' = p
           /\ y_true' = y_true \o [k \in 1..Len(batch) |-> batch[k].label]
           /\ y_pred' = y_pred \o p
           /\ sents' = sents \o [k \in 1..Len(batch) |-> batch[k].sent]
    /\ step' = step + 1
    /\ UNCHANGED <<pc, fwdVars, trainVars, model_argmax, dataloader,
                   save_file, out_file, eval_result>>

Count(S) == Cardinality(S)

\* sklearn accuracy_score: <<correct, total>>
Accuracy(yt, yp) ==
    <<Count({k \in 1..Len(yt) : yt[k] = yp[k]}), Len(yt)>>

\* sklearn f1_score(average='macro'): per label <<2 TP, 2 TP + FP + FN>>
F1PerLabel(yt, yp) ==
    [l \in Labels |->
       LET tp == Count({k \in 1..Len(yt) : yt[k] = l /\ yp[k] = l})
           fp == Count({k \in 1..Len(yt) : yt[k] # l /\ yp[k] = l})
           fn == Count({k \in 1..Len(yt) : yt[k] = l /\ yp[k] # l})
       IN  <<2 * tp, 2 * tp + fp + fn>>]

Min(a, b) == IF a <= b THEN a ELSE b

\* lines 189-190: zip(sents, preds), one line "pred ||| sent" per pair
ZipLines(ss, ps) == [k \in 1..Min(Len(ss), Len(ps)) |-> <<ps[k], ss[k]>>]

\* lines 184-193
EvalFinish ==
    /\ pc = "ev_loop"
    /\ step >= Len(dataloader)
    /\ eval_result' = [acc |-> Accuracy(y_true, y_pred),
                       f1  |-> F1PerLabel(y_true, y_pred)]
    /\ out_file' = IF save_file THEN ZipLines(sents, preds) ELSE out_file
    /\ pc' = "ev_done"
    /\ UNCHANGED <<fwdVars, trainVars, model_argmax, dataloader, step,
                   y_true, y_pred, sents, preds, save_file>>

NextEval == EvalBatch \/ EvalFinish

SpecEval == InitEval /\ [][NextEval]_vars

\* C10: the file written holds one line per evaluated sentence, in the
\* order of evaluation, each with the prediction made for that sentence,
\* the one that entered the accuracy and the F1.
C10_OneLinePerSentence ==
    (pc = "ev_done" /\ save_file) =>
        /\ Len(out_file) = Len(sents)
        /\ \A k \in 1..Len(out_file) :
             out_file[k] = <<y_pred[k], sents[k]>>
        /\ \A k \in 1..Len(out_file) :
             out_file[k][1] = model_argmax[out_file[k][2]]

=============================================================================
